---- MODULE Spec2Model ----
(***************************************************************************)
(* Weighted topic selection and feedback redistribution of the MicroLearn  *)
(* learning database: WeightedSelector (src/src/data/weighted-selector.js),*)
(* the completion and selection paths of BusinessLogicEngine               *)
(* (src/unnamed/part_002) and the storage calls of LearningNodeManager     *)
(* (src/unnamed/part_003).                                                 *)
(*                                                                         *)
(* Numbers.  The JavaScript factors are decimal fractions; the model keeps *)
(* them in fixed point: mastery, recency, interest and frequency factors   *)
(* in tenths, the importance factor in hundredths.  Math.round is          *)
(* round-half-up (towards +infinity).  Time is counted in whole days.      *)
(* Math.random() is an input of the operation that calls it.               *)
(***************************************************************************)
EXTENDS Integers, Sequences, FiniteSets, TLC

\* ------------------------------------------------------------------------
\* Bounds of the model
\* ------------------------------------------------------------------------
NumTopics == 3      \* largest stored population
MaxSteps == 3       \* events per behaviour: API calls and days passed
MaxDay == 1         \* days the clock may advance
MaxList == 3        \* longest list handed to a direct call of a WeightedSelector method

\* ------------------------------------------------------------------------
\* Program constants
\* ------------------------------------------------------------------------
defaultWeight == 100
maxWeight == 200
minWeight == 0
redistributionAmount == 15

\* The id 'create_new_topic' of the synthetic candidate; ids are numbers in the
\* model and no stored node has this one.
create_new_topic == 0

\* mastery_percentage is a percentage: CHECK (mastery_percentage <= 100)
maxMastery == 100

\* null / undefined / an absent field.  Every optional field of the model is a
\* number or a string of characters, so the marker is a number no field holds.
NULL == -1000000

\* ------------------------------------------------------------------------
\* Arithmetic
\* ------------------------------------------------------------------------
Max(a, b) == IF a >= b THEN a ELSE b
Min(a, b) == IF a <= b THEN a ELSE b

\* Math.round(n / d) for integers n and d > 0: round half up.
\* (\div is the floor division, so negative halves go towards +infinity.)
RoundDiv(n, d) == (2 * n + d) \div (2 * d)

\* Math.round(p * q / 1000000) for q >= 0, round half up, computed in two
\* halves so that no intermediate value leaves 32 bits:
\* floor((p * q + 500000) / 1000000) with p = 1000 * hi + lo, 0 <= lo < 1000.
RoundMillionths(p, q) ==
    LET hi == p \div 1000
        lo == p % 1000
    IN  (hi * q + 500 + ((lo * q) \div 1000)) \div 1000

\* Math.floor(n / d), d > 0
FloorDiv(n, d) == n \div d

RECURSIVE SumSeq(_)
SumSeq(s) == IF s = <<>> THEN 0 ELSE Head(s) + SumSeq(Tail(s))

\* Truthiness of a stored number: null, undefined and 0 are falsy.
Truthy(x) == x # NULL /\ x # 0

\* x || d
OrDefault(x, d) == IF Truthy(x) THEN x ELSE d

\* ------------------------------------------------------------------------
\* Names: strings are sequences of characters
\* ------------------------------------------------------------------------
toLowerCase(s) ==
    [i \in 1..Len(s) |->
        CASE s[i] = "M" -> "m"
          [] s[i] = "A" -> "a"
          [] s[i] = "G" -> "g"
          [] OTHER -> s[i]]

\* String.prototype.includes
includes(s, sub) ==
    \E i \in 1..(Len(s) + 1) :
        /\ i + Len(sub) - 1 <= Len(s)
        /\ SubSeq(s, i, i + Len(sub) - 1) = sub

\* ------------------------------------------------------------------------
\* WeightedSelector: the scoring factors
\* ------------------------------------------------------------------------

\* calculateMasteryWeight with > in place of >=
calculateMasteryWeight_strict(masteryPercentage) ==
    IF masteryPercentage > 100 THEN 0
    ELSE IF masteryPercentage > 99 THEN 1
    ELSE IF masteryPercentage > 90 THEN 3
    ELSE IF masteryPercentage > 70 THEN 6
    ELSE IF masteryPercentage > 50 THEN 10
    ELSE IF masteryPercentage > 30 THEN 15
    ELSE 20

\* calculateMasteryWeight, in tenths
calculateMasteryWeight(masteryPercentage) ==
    IF masteryPercentage >= 100 THEN 0
    ELSE IF masteryPercentage >= 99 THEN 1
    ELSE IF masteryPercentage >= 90 THEN 3
    ELSE IF masteryPercentage >= 70 THEN 6
    ELSE IF masteryPercentage >= 50 THEN 10
    ELSE IF masteryPercentage >= 30 THEN 15
    ELSE 20

\* calculateBaseImportance, in hundredths.  node.base_importance is
\* metadata.base_importance (hundredths) or NULL when the field is absent.
calculateBaseImportance(node) ==
    IF Truthy(node.base_importance) THEN node.base_importance
    ELSE CASE node.node_type \in {"foundation", "core"} -> 130
           [] node.node_type = "subject" -> 110
           [] node.node_type = "skill" -> 105
           [] OTHER -> 100

\* calculateLastPracticedWeight with a lock-out on the day of practice
calculateLastPracticedWeight_lockOut(node, today) ==
    IF node.last_practiced = NULL THEN 13
    ELSE LET daysSincePractice == today - node.last_practiced
         IN  IF daysSincePractice < 1 THEN 0
             ELSE IF daysSincePractice < 3 THEN 6
             ELSE IF daysSincePractice < 7 THEN 8
             ELSE IF daysSincePractice < 14 THEN 11
             ELSE IF daysSincePractice < 30 THEN 14
             ELSE 18

\* calculateLastPracticedWeight, in tenths; today is the day of new Date().
calculateLastPracticedWeight(node, today) ==
    IF node.last_practiced = NULL THEN 13
    ELSE LET daysSincePractice == today - node.last_practiced
         IN  IF daysSincePractice < 1 THEN 3
             ELSE IF daysSincePractice < 3 THEN 6
             ELSE IF daysSincePractice < 7 THEN 8
             ELSE IF daysSincePractice < 14 THEN 11
             ELSE IF daysSincePractice < 30 THEN 14
             ELSE 18

\* inferDifficultyFromMastery with <= in place of <
inferDifficultyFromMastery_inclusive(masteryPercentage) ==
    IF masteryPercentage <= 40 THEN "beginner"
    ELSE IF masteryPercentage <= 80 THEN "intermediate"
    ELSE "advanced"

\* inferDifficultyFromMastery
inferDifficultyFromMastery(masteryPercentage) ==
    IF masteryPercentage < 40 THEN "beginner"
    ELSE IF masteryPercentage < 80 THEN "intermediate"
    ELSE "advanced"

\* calculateInterestMultiplier, in tenths.  userPreferences.topic is a string
\* (<<>> when absent), userPreferences.difficulty a level ("" when absent).
calculateInterestMultiplier(node, userPreferences) ==
    LET preferredTopic == userPreferences.topic
        nodeName == toLowerCase(node.name)
        preferredDifficulty ==
            IF userPreferences.difficulty = "" THEN "intermediate"
            ELSE userPreferences.difficulty
        nodeDifficulty == inferDifficultyFromMastery(node.mastery_percentage)
    IN  IF preferredTopic # <<>> /\ includes(nodeName, toLowerCase(preferredTopic))
        THEN 15
        ELSE IF preferredDifficulty = "beginner" /\ nodeDifficulty = "beginner" THEN 12
        ELSE IF preferredDifficulty = "advanced" /\ nodeDifficulty = "advanced" THEN 12
        ELSE IF preferredDifficulty = "intermediate" /\ nodeDifficulty = "intermediate"
        THEN 11
        ELSE 10

\* calculateFrequencyBias, in tenths.  analysis.learningOpportunities and
\* analysis.contentGaps are kept as the sets of the nodeId they carry.
calculateFrequencyBias(node, analysis) ==
    IF node.id \in analysis.learningOpportunities THEN 13
    ELSE IF node.id \in analysis.contentGaps THEN 12
    ELSE 10

\* calculateNewTopicWeight with highMasteryRatio > 0.5 in place of >= 0.5
calculateNewTopicWeight_strictRatio(nodes) ==
    IF Len(nodes) = 0 THEN 20
    ELSE
      LET totalMastery == SumSeq([i \in 1..Len(nodes) |-> nodes[i].mastery_percentage])
          n == Len(nodes)
          highMasteryCount ==
              Cardinality({i \in 1..n : nodes[i].mastery_percentage >= 90})
          baseWeight ==
              IF totalMastery >= 80 * n THEN 15
              ELSE IF totalMastery >= 60 * n THEN 12
              ELSE IF totalMastery >= 40 * n THEN 10
              ELSE IF totalMastery >= 20 * n THEN 8
              ELSE 5
          boosted == IF 2 * highMasteryCount > n THEN baseWeight + 5 ELSE baseWeight
      IN  Min(boosted, 20)

\* calculateNewTopicWeight, in tenths
calculateNewTopicWeight(nodes) ==
    IF Len(nodes) = 0 THEN 20
    ELSE
      LET totalMastery == SumSeq([i \in 1..Len(nodes) |-> nodes[i].mastery_percentage])
          n == Len(nodes)
          highMasteryCount ==
              Cardinality({i \in 1..n : nodes[i].mastery_percentage >= 90})
          \* averageMastery >= k  <=>  totalMastery >= k * n
          baseWeight ==
              IF totalMastery >= 80 * n THEN 15
              ELSE IF totalMastery >= 60 * n THEN 12
              ELSE IF totalMastery >= 40 * n THEN 10
              ELSE IF totalMastery >= 20 * n THEN 8
              ELSE 5
          \* highMasteryRatio >= 0.5  <=>  2 * highMasteryCount >= n
          boosted == IF 2 * highMasteryCount >= n THEN baseWeight + 5 ELSE baseWeight
      IN  Min(boosted, 20)

\* The products base * mastery * importance * recency * interest * frequency
\* whose IEEE-754 double value falls just below the exact half-integer, so
\* that Math.round gives one less than exact round-half-up.  The table is
\* complete for base in 1..200, the factor tables above and a
\* metadata.base_importance of 2.0, 4.0 or -4.0.
FloatRoundsDown ==
    {
      <<15, 15, -400, 11, 15, 10>>, <<15, 15, 100, 14, 10, 10>>,
      <<15, 15, 200, 14, 15, 10>>, <<25, 10, -400, 11, 15, 13>>,
      <<25, 15, -400, 3, 11, 10>>, <<25, 15, -400, 11, 11, 10>>,
      <<25, 15, -400, 13, 11, 10>>, <<30, 15, 100, 14, 15, 10>>,
      <<35, 15, -400, 11, 15, 10>>, <<45, 10, 100, 14, 15, 10>>,
      <<50, 15, 110, 14, 10, 10>>, <<55, 15, -400, 11, 15, 10>>,
      <<55, 15, 100, 14, 10, 10>>, <<55, 15, 200, 14, 15, 10>>,
      <<65, 15, -400, 11, 15, 10>>, <<75, 3, -400, 11, 15, 10>>,
      <<75, 3, 100, 14, 10, 10>>, <<75, 3, 200, 14, 15, 10>>,
      <<75, 6, 100, 14, 15, 10>>, <<75, 10, 110, 14, 10, 10>>,
      <<75, 15, -400, 11, 10, 13>>, <<75, 15, -400, 11, 11, 10>>,
      <<75, 15, -400, 11, 15, 10>>, <<75, 20, 110, 14, 15, 10>>,
      <<85, 10, 100, 14, 15, 10>>, <<100, 15, 110, 14, 15, 10>>,
      <<110, 15, 100, 14, 15, 10>>, <<115, 15, -400, 11, 15, 10>>,
      <<115, 15, 100, 14, 10, 10>>, <<115, 15, 200, 14, 15, 10>>,
      <<125, 1, -400, 11, 10, 13>>, <<125, 1, -400, 11, 11, 10>>,
      <<125, 1, -400, 11, 15, 10>>, <<125, 3, -400, 3, 11, 10>>,
      <<125, 3, -400, 11, 11, 10>>, <<125, 3, -400, 13, 11, 10>>,
      <<125, 6, 110, 14, 10, 10>>, <<125, 10, -400, 13, 11, 13>>,
      <<125, 10, 130, 14, 10, 10>>, <<125, 10, 130, 14, 15, 12>>,
      <<125, 15, -400, 3, 11, 10>>, <<125, 15, -400, 6, 11, 13>>,
      <<125, 15, -400, 11, 10, 13>>, <<125, 15, -400, 11, 11, 10>>,
      <<125, 15, -400, 11, 15, 10>>, <<125, 15, -400, 18, 11, 13>>,
      <<125, 20, 130, 14, 15, 10>>, <<135, 15, -400, 11, 15, 10>>,
      <<145, 15, -400, 11, 15, 10>>, <<150, 3, 100, 14, 15, 10>>,
      <<150, 10, 110, 14, 15, 10>>, <<150, 15, -400, 11, 15, 13>>,
      <<155, 15, -400, 11, 15, 10>>, <<165, 10, 100, 14, 15, 10>>,
      <<175, 3, -400, 11, 15, 10>>, <<175, 10, -400, 11, 15, 13>>,
      <<175, 10, 100, 14, 15, 10>>, <<175, 10, 200, 14, 15, 13>>,
      <<175, 15, -400, 13, 11, 10>>, <<175, 20, 100, 14, 15, 13>>
    }

\* Math.round(baseWeight * masteryWeight * baseImportance * lastPracticedWeight
\*            * interestMultiplier * frequencyBias)
finalWeightOf(baseWeight, m10, i100, r10, n10, f10) ==
    LET exact == RoundMillionths(baseWeight * m10 * i100, r10 * n10 * f10)
    IN  IF <<baseWeight, m10, i100, r10, n10, f10>> \in FloatRoundsDown
        THEN exact - 1
        ELSE exact

\* clampWeight without Math.min(this.maxWeight, ...)
clampWeight_noMax(finalWeight) == Max(minWeight, finalWeight)

\* Math.max(this.minWeight, Math.min(this.maxWeight, finalWeight))
clampWeight(finalWeight) == Max(minWeight, Min(maxWeight, finalWeight))

\* The object calculateWeights returns for one node
weighNode(node, userPreferences, analysis, today) ==
    LET baseWeight == OrDefault(node.selection_weight, defaultWeight)
        masteryWeight == calculateMasteryWeight(node.mastery_percentage)
        baseImportance == calculateBaseImportance(node)
        lastPracticedWeight == calculateLastPracticedWeight(node, today)
        interestMultiplier == calculateInterestMultiplier(node, userPreferences)
        frequencyBias == calculateFrequencyBias(node, analysis)
        finalWeight == finalWeightOf(baseWeight, masteryWeight, baseImportance,
                                     lastPracticedWeight, interestMultiplier,
                                     frequencyBias)
        clampedWeight == clampWeight(finalWeight)
    IN  [id |-> node.id,
         mastery_percentage |-> node.mastery_percentage,
         selection_weight |-> clampedWeight,
         isCreateNewTopic |-> FALSE,
         weight_breakdown |->
             [base |-> baseWeight, mastery |-> masteryWeight,
              baseImportance |-> baseImportance,
              lastPracticed |-> lastPracticedWeight,
              interest |-> interestMultiplier, frequency |-> frequencyBias,
              final |-> clampedWeight]]

\* createNewTopicOption without the multiplication by the default weight
createNewTopicOption_unscaled(nodes) ==
    LET newTopicWeight == calculateNewTopicWeight(nodes)
    IN  [id |-> create_new_topic,
         mastery_percentage |-> 0,
         selection_weight |-> RoundDiv(newTopicWeight, 10),
         isCreateNewTopic |-> TRUE,
         weight_breakdown |->
             [base |-> defaultWeight, mastery |-> 10, baseImportance |-> 100,
              lastPracticed |-> 10, interest |-> 10, frequency |-> 10,
              final |-> RoundDiv(newTopicWeight, 10)]]

\* The "Create New Topic" option
createNewTopicOption(nodes) ==
    LET newTopicWeight == calculateNewTopicWeight(nodes)
    IN  [id |-> create_new_topic,
         mastery_percentage |-> 0,
         selection_weight |-> RoundDiv(newTopicWeight * defaultWeight, 10),
         isCreateNewTopic |-> TRUE,
         weight_breakdown |->
             [base |-> defaultWeight, mastery |-> 10, baseImportance |-> 100,
              lastPracticed |-> 10, interest |-> 10, frequency |-> 10,
              final |-> RoundDiv(newTopicWeight * defaultWeight, 10)]]

\* calculateWeights(nodes, userPreferences, analysis)
calculateWeights(nodes, userPreferences, analysis, today) ==
    Append([i \in 1..Len(nodes) |->
                weighNode(nodes[i], userPreferences, analysis, today)],
           createNewTopicOption(nodes))

\* ------------------------------------------------------------------------
\* WeightedSelector: the draw
\* ------------------------------------------------------------------------

\* A value of Math.random() is the fraction num / den, 0 <= num < den.
RECURSIVE firstReached(_, _, _, _, _)
\* The loop of weightedRandomPick from position i on: the first node with
\* randomValue <= accumulatedWeight, the last node when the loop falls through.
\* randomValue = (num / den) * totalWeight, compared without dividing.
firstReached(weights, i, accumulatedWeight, scaledRandom, den) ==
    IF i > Len(weights) THEN Len(weights)
    ELSE IF scaledRandom <= (accumulatedWeight + weights[i]) * den THEN i
    ELSE firstReached(weights, i + 1, accumulatedWeight + weights[i],
                      scaledRandom, den)

\* weightedRandomPick without the test for an empty list: the index it reads
\* is past the end of the list.
weightedRandomPick_noEmptyTest(nodesWithWeights, num, den) ==
    LET weights == [i \in 1..Len(nodesWithWeights) |->
                        nodesWithWeights[i].selection_weight]
        totalWeight == SumSeq(weights)
    IN  IF totalWeight = 0
        THEN FloorDiv(num * Len(nodesWithWeights), den) + 1
        ELSE firstReached(weights, 1, 0, num * totalWeight, den)

\* weightedRandomPick(nodesWithWeights): the position of the node it returns,
\* 0 when it throws 'No nodes available for selection'.
weightedRandomPick(nodesWithWeights, num, den) ==
    LET weights == [i \in 1..Len(nodesWithWeights) |->
                        nodesWithWeights[i].selection_weight]
        totalWeight == SumSeq(weights)
    IN  IF Len(nodesWithWeights) = 0 THEN 0
        ELSE IF totalWeight = 0
        THEN FloorDiv(num * Len(nodesWithWeights), den) + 1
        ELSE firstReached(weights, 1, 0, num * totalWeight, den)

\* ------------------------------------------------------------------------
\* WeightedSelector: redistribution
\* ------------------------------------------------------------------------

\* weightPerNodeOf with Math.floor in place of Math.round
weightPerNodeOf_floor(weightToRedistribute, others) ==
    IF others = 0 THEN NULL ELSE FloorDiv(weightToRedistribute, others)

\* weightPerNodeOf without the division among the other nodes
weightPerNodeOf_whole(weightToRedistribute, others) ==
    IF others = 0 THEN NULL ELSE weightToRedistribute

\* Math.round(weightToRedistribute / otherNodes.length); with no other node
\* the quotient is Infinity or NaN and no node reads it.
weightPerNodeOf(weightToRedistribute, others) ==
    IF others = 0 THEN NULL ELSE RoundDiv(weightToRedistribute, others)

\* receivedWeight with Math.max in place of Math.min
receivedWeight_max(weight, weightPerNode) == Max(maxWeight, weight + weightPerNode)

\* receivedWeight without the cap at maxWeight
receivedWeight_uncapped(weight, weightPerNode) == weight + weightPerNode

\* Math.min(this.maxWeight, node.selection_weight + weightPerNode)
receivedWeight(weight, weightPerNode) == Min(maxWeight, weight + weightPerNode)

\* redistributeWeight with Math.ceil in place of Math.round for the weight to
\* redistribute
redistributeWeight_ceil(selectedNodeId, nodes, amount) ==
    LET found == {i \in 1..Len(nodes) : nodes[i].id = selectedNodeId}
    IN  IF found = {}
        THEN [i \in 1..Len(nodes) |->
                 [id |-> nodes[i].id,
                  selection_weight |-> nodes[i].selection_weight,
                  weight_change |-> NULL]]
        ELSE
          LET completedNode == nodes[CHOOSE i \in found : \A j \in found : i <= j]
              weightToRedistribute ==
                  (completedNode.selection_weight * amount + 99) \div 100
              remainingWeight == completedNode.selection_weight - weightToRedistribute
              finalCompletedWeight == Max(minWeight, remainingWeight)
              others == Cardinality({i \in 1..Len(nodes) : nodes[i].id # selectedNodeId})
              weightPerNode == weightPerNodeOf(weightToRedistribute, others)
          IN  [i \in 1..Len(nodes) |->
                 IF nodes[i].id = selectedNodeId
                 THEN [id |-> nodes[i].id,
                       selection_weight |-> finalCompletedWeight,
                       weight_change |->
                           finalCompletedWeight - nodes[i].selection_weight]
                 ELSE LET newWeight ==
                              receivedWeight(nodes[i].selection_weight, weightPerNode)
                      IN  [id |-> nodes[i].id,
                           selection_weight |-> newWeight,
                           weight_change |-> newWeight - nodes[i].selection_weight]]

\* redistributeWeight(selectedNodeId, nodes, redistributionAmount).  nodes is a
\* sequence of [id, selection_weight]; the result carries weight_change, which
\* is NULL (undefined) on the nodes returned unchanged when the completed node
\* is not among them.
redistributeWeight(selectedNodeId, nodes, amount) ==
    LET found == {i \in 1..Len(nodes) : nodes[i].id = selectedNodeId}
    IN  IF found = {}
        THEN [i \in 1..Len(nodes) |->
                 [id |-> nodes[i].id,
                  selection_weight |-> nodes[i].selection_weight,
                  weight_change |-> NULL]]
        ELSE
          LET completedNode == nodes[CHOOSE i \in found : \A j \in found : i <= j]
              weightToRedistribute ==
                  RoundDiv(completedNode.selection_weight * amount, 100)
              remainingWeight == completedNode.selection_weight - weightToRedistribute
              finalCompletedWeight == Max(minWeight, remainingWeight)
              others == Cardinality({i \in 1..Len(nodes) : nodes[i].id # selectedNodeId})
              weightPerNode == weightPerNodeOf(weightToRedistribute, others)
          IN  [i \in 1..Len(nodes) |->
                 IF nodes[i].id = selectedNodeId
                 THEN [id |-> nodes[i].id,
                       selection_weight |-> finalCompletedWeight,
                       weight_change |->
                           finalCompletedWeight - nodes[i].selection_weight]
                 ELSE LET newWeight ==
                              receivedWeight(nodes[i].selection_weight, weightPerNode)
                      IN  [id |-> nodes[i].id,
                           selection_weight |-> newWeight,
                           weight_change |-> newWeight - nodes[i].selection_weight]]

\* ------------------------------------------------------------------------
\* State
\* ------------------------------------------------------------------------
VARIABLES
    learning_nodes,   \* the learning_nodes table, in created_at order
    now,              \* the day new Date() falls on
    steps,            \* events so far: API calls and days passed
    before,           \* learning_nodes as the last call found it
    call,             \* the last call, its arguments and the day it was made
    result,           \* what the last call returned
    tasks             \* the calls of handleLessonComplete in flight: where each
                      \* stands between its awaits, and its local variables

vars == <<learning_nodes, now, steps, before, call, result, tasks>>

\* ------------------------------------------------------------------------
\* LearningNodeManager over the table
\* ------------------------------------------------------------------------

\* getNode(id): the position of the row, 0 when there is none (null)
getNode(table, id) ==
    IF \E i \in 1..Len(table) : table[i].id = id
    THEN CHOOSE i \in 1..Len(table) : table[i].id = id
    ELSE 0

\* getRootNodes without WHERE parent_id IS NULL
getRootNodes_all(table) == table

\* getRootNodes(): WHERE parent_id IS NULL ORDER BY created_at ASC
getRootNodes(table) ==
    LET isRoot(n) == n.parent_id = NULL
    IN  SelectSeq(table, isRoot)

\* updateNode(id, updates): sets the given columns of the row; nothing happens
\* when the row does not exist.
updateNode(table, id, updates) ==
    [i \in 1..Len(table) |->
        IF table[i].id = id
        THEN [f \in DOMAIN table[i] |->
                 IF f \in DOMAIN updates THEN updates[f] ELSE table[i][f]]
        ELSE table[i]]

\* updateMastery(id, percentage)
updateMastery(table, id, percentage, today) ==
    updateNode(table, id,
               [mastery_percentage |-> Max(0, Min(100, percentage)),
                last_practiced |-> today])

\* ------------------------------------------------------------------------
\* BusinessLogicEngine: completion
\* ------------------------------------------------------------------------

\* masteryIncreaseOf with Math.floor in place of Math.round
masteryIncreaseOf_floor(score) ==
    IF Truthy(score) THEN FloorDiv(score, 10) ELSE 10

\* score ? Math.round(score / 10) : 10
masteryIncreaseOf(score) ==
    IF Truthy(score) THEN RoundDiv(score, 10) ELSE 10

\* newMasteryOf with the increase of a pass taken away instead of added
newMasteryOf_subtracting(oldMastery, passed, score) ==
    IF passed
    THEN Max(0, Min(100, oldMastery - masteryIncreaseOf(score)))
    ELSE Max(0, oldMastery - 2)

\* newMasteryOf without Math.min(100, ...) and Math.max(0, ...)
newMasteryOf_unclamped(oldMastery, passed, score) ==
    IF passed THEN oldMastery + masteryIncreaseOf(score) ELSE oldMastery - 2

\* The new mastery handleLessonComplete computes
newMasteryOf(oldMastery, passed, score) ==
    IF passed
    THEN Min(100, oldMastery + masteryIncreaseOf(score))
    ELSE Max(0, oldMastery - 2)

\* updateLastPracticed(nodeId)
updateLastPracticed(table, nodeId, today) ==
    updateNode(table, nodeId, [last_practiced |-> today])

\* allNodes.map(node => ({...node, selection_weight: node.selection_weight || 100}))
withDefaultWeights(allNodes) ==
    [i \in 1..Len(allNodes) |->
        [id |-> allNodes[i].id,
         selection_weight |-> OrDefault(allNodes[i].selection_weight, 100)]]

\* node.weight_change && node.weight_change !== 0
weightChanged(node) == Truthy(node.weight_change)

RECURSIVE writeWeights(_, _)
\* The writes of updateNodeWeights, in the order of updatedNodes
writeWeights(table, updatedNodes) ==
    IF updatedNodes = <<>> THEN table
    ELSE LET node == Head(updatedNodes)
         IN  IF weightChanged(node)
             THEN writeWeights(
                      updateNode(table, node.id,
                                 [selection_weight |-> node.selection_weight]),
                      Tail(updatedNodes))
             ELSE writeWeights(table, Tail(updatedNodes))

\* The list updateNodeWeights returns
updateNodeWeights(updatedNodes) ==
    LET written == SelectSeq(updatedNodes, weightChanged)
    IN  [i \in 1..Len(written) |->
            [nodeId |-> written[i].id,
             oldWeight |-> written[i].selection_weight - written[i].weight_change,
             newWeight |-> written[i].selection_weight,
             change |-> written[i].weight_change]]

\* The nodes handleLessonComplete hands to updateNodeWeights on a pass
redistributed(table, nodeId) ==
    redistributeWeight(nodeId, withDefaultWeights(getRootNodes(table)),
                       redistributionAmount)

\* redistributeIfPassed with the test of passed inverted
redistributeIfPassed_inverted(table, nodeId, passed) ==
    IF ~passed THEN writeWeights(table, redistributed(table, nodeId)) ELSE table

\* redistributeIfPassed without the test of passed
redistributeIfPassed_always(table, nodeId, passed) ==
    writeWeights(table, redistributed(table, nodeId))

\* if (passed) { ... weightUpdates = await this.updateNodeWeights(updatedNodes) }:
\* the table after it, and the weightUpdates of the result
redistributeIfPassed(table, nodeId, passed) ==
    IF passed THEN writeWeights(table, redistributed(table, nodeId)) ELSE table

weightUpdatesIfPassed(table, nodeId, passed) ==
    IF passed THEN updateNodeWeights(redistributed(table, nodeId)) ELSE <<>>

\* handleLessonComplete(nodeId, passed, score)
handleLessonComplete(nodeId, passed, score) ==
    /\ steps < MaxSteps
    /\ steps' = steps + 1
    /\ before' = learning_nodes
    /\ call' = [op |-> "handleLessonComplete", at |-> now, nodeId |-> nodeId,
                passed |-> passed, score |-> score]
    /\ UNCHANGED <<now, tasks>>
    /\ IF getNode(learning_nodes, nodeId) = 0
       THEN \* throw new Error('Completed node not found')
            /\ learning_nodes' = learning_nodes
            /\ result' = [threw |-> TRUE, success |-> FALSE, newMastery |-> NULL,
                          weightUpdates |-> <<>>]
       ELSE LET completedNode == learning_nodes[getNode(learning_nodes, nodeId)]
                newMastery ==
                    newMasteryOf(completedNode.mastery_percentage, passed, score)
                t1 == updateMastery(learning_nodes, nodeId, newMastery, now)
                t2 == updateLastPracticed(t1, nodeId, now)
            IN  /\ learning_nodes' = redistributeIfPassed(t2, nodeId, passed)
                /\ result' = [threw |-> FALSE, success |-> TRUE,
                              newMastery |-> newMastery,
                              weightUpdates |->
                                  weightUpdatesIfPassed(t2, nodeId, passed)]

\* ------------------------------------------------------------------------
\* BusinessLogicEngine: selection
\* ------------------------------------------------------------------------

\* identifyContentGaps: the nodeId of the low_mastery gaps (the
\* missing_subject gaps carry no nodeId)
identifyContentGaps(content) ==
    {content[i].id : i \in {j \in 1..Len(content) : content[j].mastery_percentage < 30}}

\* identifyLearningOpportunities: the nodeId of the opportunities
identifyLearningOpportunities(content) ==
    {content[i].id : i \in {j \in 1..Len(content) :
                               /\ content[j].mastery_percentage >= 40
                               /\ content[j].mastery_percentage <= 70}}

\* analyzeTopLayerContent(): the root nodes followed by the rows of
\* level_1_nodes, a table none of the modelled calls writes (it stays empty).
analyzeTopLayerContent(table) ==
    LET content == getRootNodes(table)
    IN  [content |-> content,
         analysis |-> [contentGaps |-> identifyContentGaps(content),
                       learningOpportunities |->
                           identifyLearningOpportunities(content)]]

RECURSIVE cumulative(_, _)
\* The running sums of a list of weights, as a set
cumulative(weights, i) ==
    IF i = 0 THEN {0}
    ELSE {SumSeq(SubSeq(weights, 1, i))} \cup cumulative(weights, i - 1)

\* Values of Math.random() for a draw over these candidates, as numerators
\* over randomDen: the scaled draw lands on each running sum of the weights
\* and strictly between each two of them.
randomDen(nodesWithWeights) ==
    LET total == SumSeq([i \in 1..Len(nodesWithWeights) |->
                            nodesWithWeights[i].selection_weight])
    IN  IF total = 0 THEN Max(1, Len(nodesWithWeights)) ELSE 2 * total

randomNums(nodesWithWeights) ==
    LET weights == [i \in 1..Len(nodesWithWeights) |->
                       nodesWithWeights[i].selection_weight]
        total == SumSeq(weights)
        den == randomDen(nodesWithWeights)
        sums == cumulative(weights, Len(weights))
    IN  IF total = 0 THEN 0..(den - 1)
        ELSE {k \in UNION {{2 * c, 2 * c + 1} : c \in sums} : k < den}

\* noContent answering false for every list
noContent_never(content) == FALSE

\* topLayerAnalysis.content.length === 0
noContent(content) == Len(content) = 0

\* generateLessonRequest storing the weight it computed for the topic it picked
generateLessonRequest_storing(userPreferences, num) ==
    LET topLayerAnalysis == analyzeTopLayerContent(learning_nodes)
        nodesWithWeights ==
            calculateWeights(topLayerAnalysis.content, userPreferences,
                             topLayerAnalysis.analysis, now)
        picked == weightedRandomPick(nodesWithWeights, num,
                                     randomDen(nodesWithWeights))
    IN  /\ steps < MaxSteps
        /\ steps' = steps + 1
        /\ before' = learning_nodes
        /\ call' = [op |-> "generateLessonRequest", at |-> now,
                    userPreferences |-> userPreferences]
        /\ UNCHANGED <<now, tasks>>
        /\ IF noContent(topLayerAnalysis.content)
           THEN /\ learning_nodes' = learning_nodes
                /\ result' = [threw |-> FALSE, success |-> FALSE, code |-> 404,
                           error |-> "No content available for lesson generation",
                           nodesWithWeights |-> <<>>, selectedTopic |-> NULL]
           ELSE /\ num \in randomNums(nodesWithWeights)
                /\ learning_nodes' =
                       updateNode(learning_nodes, nodesWithWeights[picked].id,
                                  [selection_weight |->
                                       nodesWithWeights[picked].selection_weight])
                /\ result' = [threw |-> FALSE, success |-> TRUE, code |-> 200,
                              nodesWithWeights |-> nodesWithWeights,
                              selectedTopic |-> nodesWithWeights[picked].id]

\* generateLessonRequest(userPreferences); num / randomDen is its Math.random()
generateLessonRequest(userPreferences, num) ==
    LET topLayerAnalysis == analyzeTopLayerContent(learning_nodes)
        nodesWithWeights ==
            calculateWeights(topLayerAnalysis.content, userPreferences,
                             topLayerAnalysis.analysis, now)
        picked == weightedRandomPick(nodesWithWeights, num,
                                     randomDen(nodesWithWeights))
    IN  /\ steps < MaxSteps
        /\ steps' = steps + 1
        /\ before' = learning_nodes
        /\ call' = [op |-> "generateLessonRequest", at |-> now,
                    userPreferences |-> userPreferences]
        /\ UNCHANGED <<learning_nodes, now, tasks>>
        /\ IF noContent(topLayerAnalysis.content)
           THEN result' = [threw |-> FALSE, success |-> FALSE, code |-> 404,
                           error |-> "No content available for lesson generation",
                           nodesWithWeights |-> <<>>, selectedTopic |-> NULL]
           ELSE /\ num \in randomNums(nodesWithWeights)
                /\ result' = [threw |-> FALSE, success |-> TRUE, code |-> 200,
                              nodesWithWeights |-> nodesWithWeights,
                              selectedTopic |-> nodesWithWeights[picked].id]

\* ------------------------------------------------------------------------
\* LessonGenerator: administration
\* ------------------------------------------------------------------------

\* nodes.map(node => ({...node, selection_weight: 100})): the rows as read
\* from storage, which carry no weight_change
resetNodesOf(nodes) ==
    [i \in 1..Len(nodes) |->
        [id |-> nodes[i].id, selection_weight |-> 100, weight_change |-> NULL]]

\* resetWeights(level) for level 0, the root level
resetWeights(level) ==
    LET nodes == getRootNodes(learning_nodes)
        resetNodes == resetNodesOf(nodes)
    IN  /\ level = 0
        /\ steps < MaxSteps
        /\ steps' = steps + 1
        /\ before' = learning_nodes
        /\ call' = [op |-> "resetWeights", at |-> now, level |-> level]
        /\ learning_nodes' = writeWeights(learning_nodes, resetNodes)
        /\ result' = [threw |-> FALSE, success |-> TRUE, level |-> level,
                      nodesReset |-> Len(resetNodes)]
        /\ UNCHANGED <<now, tasks>>

\* A day passes
Tick ==
    /\ now < MaxDay
    /\ steps < MaxSteps
    /\ now' = now + 1
    /\ steps' = steps + 1
    /\ UNCHANGED <<learning_nodes, before, call, result, tasks>>

\* ------------------------------------------------------------------------
\* The stored populations the behaviours start from
\* ------------------------------------------------------------------------

\* What the stored topics hold when the first call arrives, by id: nearly
\* mastered at the top weight; never practiced and never weighted; half way
\* with a stored weight of 0, last practiced a month ago.
profileOf(id) ==
    IF id % 3 = 1
    THEN [mastery_percentage |-> 95, selection_weight |-> 200, last_practiced |-> 0]
    ELSE IF id % 3 = 2
    THEN [mastery_percentage |-> 1, selection_weight |-> NULL, last_practiced |-> NULL]
    ELSE [mastery_percentage |-> 50, selection_weight |-> 0, last_practiced |-> 0 - 30]

\* The columns a completion never writes, by id
nameOf(id) == IF id % 2 = 1 THEN <<"M", "a", "t", "h">> ELSE <<"A", "r", "t">>
nodeTypeOf(id) ==
    IF id % 3 = 1 THEN "subject" ELSE IF id % 3 = 2 THEN "core" ELSE "concept"

storedNode(id, profile, parent) ==
    [id |-> id, name |-> nameOf(id),
     mastery_percentage |-> profile.mastery_percentage,
     last_practiced |-> profile.last_practiced,
     parent_id |-> parent,
     node_type |-> nodeTypeOf(id),
     base_importance |-> NULL,
     selection_weight |-> profile.selection_weight]

\* Tables of 0..NumTopics rows; the last row is a root or a child of row 1.
InitTables ==
    { [i \in 1..n |->
          storedNode(i, profileOf(i), IF i = n /\ i > 1 THEN lastParent ELSE NULL)] :
      n \in 0..NumTopics, lastParent \in {NULL, 1} }

\* userPreferences of a request
PrefSamples ==
    { [topic |-> <<"m", "A">>, difficulty |-> "beginner"] }

\* The (passed, score) pairs a completion reports; NULL is the absent score
CompletionSamples == {<<TRUE, NULL>>, <<TRUE, 0>>, <<TRUE, 85>>, <<FALSE, NULL>>}

noCall == [op |-> "none"]
noResult == [threw |-> FALSE, success |-> FALSE]

Init ==
    /\ learning_nodes \in InitTables
    /\ now = 0
    /\ steps = 0
    /\ before = learning_nodes
    /\ call = noCall
    /\ result = noResult
    /\ tasks = <<>>

requestNums(userPreferences) ==
    LET topLayerAnalysis == analyzeTopLayerContent(learning_nodes)
    IN  randomNums(calculateWeights(topLayerAnalysis.content, userPreferences,
                                    topLayerAnalysis.analysis, now))

Complete ==
    \E nodeId \in {learning_nodes[i].id : i \in 1..Len(learning_nodes)}
                      \cup {create_new_topic} :
        \E c \in CompletionSamples :
            handleLessonComplete(nodeId, c[1], c[2])

Request ==
    \E userPreferences \in PrefSamples :
        \E num \in requestNums(userPreferences) :
            generateLessonRequest(userPreferences, num)

Reset == resetWeights(0)

Next == Complete \/ Request \/ Tick \/ Reset

Spec == Init /\ [][Next]_vars

\* ------------------------------------------------------------------------
\* Stored populations after long use
\* ------------------------------------------------------------------------

RECURSIVE afterPasses(_, _)
\* The stored weight of a topic after k passed completions of it during which
\* no other topic was completed: each takes Math.round(weight * 15 / 100) away.
afterPasses(weight, k) ==
    IF k = 0 THEN weight
    ELSE afterPasses(
             Max(minWeight, weight - RoundDiv(weight * redistributionAmount, 100)),
             k - 1)

\* What the stored topics hold after the engine has served them for long, by
\* id: a topic passed thirty times (mostly on low scores) and then failed
\* once, its weight worn down from the default; a topic a third of the way,
\* at the default weight; a topic that received weight up to the top.  The
\* first two were practiced today, the third last week.
inUseProfileOf(id) ==
    IF id % 3 = 1
    THEN [mastery_percentage |-> 98,
          selection_weight |-> afterPasses(defaultWeight, 30),
          last_practiced |-> 0]
    ELSE IF id % 3 = 2
    THEN [mastery_percentage |-> 35, selection_weight |-> defaultWeight,
          last_practiced |-> 0]
    ELSE [mastery_percentage |-> 60, selection_weight |-> maxWeight,
          last_practiced |-> 0 - 7]

\* Tables of 0..NumTopics such rows; the last row is a root or a child of row 1.
InUseTables ==
    { [i \in 1..n |->
          storedNode(i, inUseProfileOf(i), IF i = n /\ i > 1 THEN lastParent ELSE NULL)] :
      n \in 0..NumTopics, lastParent \in {NULL, 1} }

InitInUse ==
    /\ learning_nodes \in InUseTables
    /\ now = 0
    /\ steps = 0
    /\ before = learning_nodes
    /\ call = noCall
    /\ result = noResult
    /\ tasks = <<>>

SpecInUse == InitInUse /\ [][Next]_vars

\* ------------------------------------------------------------------------
\* Direct calls of the WeightedSelector methods
\* ------------------------------------------------------------------------

\* A topic as calculateWeights reads it.  The first topic of a list ranges
\* over the band edges of every factor, the others over LaterTopics.
MasterySamples == {0, 29, 30, 50, 70, 90, 99, 100}
WeightSamples == {NULL, 0, 75, 200}
LastPracticedSamples == {NULL, 0, 0 - 14}
NodeTypeSamples == {"core", "subject", "concept"}
ImportanceSamples == {NULL, 0, 200, 0 - 400}

topicOf(id, mastery, weight, last, type, importance) ==
    [id |-> id, name |-> nameOf(id), mastery_percentage |-> mastery,
     last_practiced |-> last, parent_id |-> NULL, node_type |-> type,
     base_importance |-> importance, selection_weight |-> weight]

FirstTopics ==
    { topicOf(1, m, w, l, t, imp) :
        m \in MasterySamples, w \in WeightSamples, l \in LastPracticedSamples,
        t \in NodeTypeSamples, imp \in ImportanceSamples }

laterTopic(id, mastery) == topicOf(id, mastery, NULL, NULL, "concept", NULL)

\* The lists of n topics
TopicLists(n) ==
    IF n = 0 THEN {<<>>}
    ELSE { [i \in 1..n |-> IF i = 1 THEN first ELSE laterTopic(i, rest[i])] :
           first \in FirstTopics, rest \in [2..n -> {0, 100}] }

FnPrefSamples ==
    { [topic |-> <<>>, difficulty |-> ""],
      [topic |-> <<"m", "A">>, difficulty |-> "beginner"],
      [topic |-> <<"G", "e", "o">>, difficulty |-> "advanced"] }

FnAnalysisSamples ==
    { [learningOpportunities |-> {}, contentGaps |-> {}],
      [learningOpportunities |-> {1}, contentGaps |-> {1}],
      [learningOpportunities |-> {2}, contentGaps |-> {1}] }

CalculateWeightsCalls(n) ==
    { [op |-> "calculateWeights", nodes |-> nodes, userPreferences |-> prefs,
       analysis |-> analysis] :
        nodes \in TopicLists(n), prefs \in FnPrefSamples,
        analysis \in FnAnalysisSamples }

\* Candidate lists for a direct draw, and every value of Math.random() that
\* is a multiple of 1 / randomDen
PickWeightSamples == {0, 1, 3}

candidateOf(id, weight) == [id |-> id, selection_weight |-> weight]

CandidateLists ==
    UNION { { [i \in 1..n |-> candidateOf(i, w[i])] :
              w \in [1..n -> PickWeightSamples] } : n \in 0..MaxList }

PickCalls ==
    UNION { { [op |-> "weightedRandomPick", nodesWithWeights |-> c, num |-> num] :
              num \in 0..(randomDen(c) - 1) } : c \in CandidateLists }

\* Populations for a direct redistribution
RedistributeWeightSamples == {0, 3, 10, 100, 190, 200}

Populations ==
    UNION { { [i \in 1..n |-> candidateOf(i, w[i])] :
              w \in [1..n -> RedistributeWeightSamples] } : n \in 1..MaxList }

RedistributeCalls ==
    UNION { { [op |-> "redistributeWeight", selectedNodeId |-> id, nodes |-> pop] :
              id \in 1..(Len(pop) + 1) } : pop \in Populations }

\* Direct calls of the factor functions.  calculateMasteryWeight is called on
\* two percentages, the second not below the first; the percentages run past
\* maxMastery.
MasteryCalls ==
    UNION { { [op |-> "calculateMasteryWeight", masteryPercentage |-> m,
               other |-> o] :
              o \in {m, m + 1, maxMastery + MaxList - m}
                        \cap (m..(maxMastery + MaxList)) } :
            m \in 0..(maxMastery + MaxList) }

InterestPrefSamples ==
    FnPrefSamples \cup
    { [topic |-> <<>>, difficulty |-> "intermediate"],
      [topic |-> <<"r", "t">>, difficulty |-> ""] }

InterestCalls ==
    { [op |-> "calculateInterestMultiplier",
       node |-> laterTopic(id, m), userPreferences |-> prefs] :
        id \in {1, 2}, m \in 0..maxMastery, prefs \in InterestPrefSamples }

\* Masteries on both sides of every band edge of the average
NewTopicMasterySamples == {0, 19, 20, 39, 40, 59, 60, 79, 80, 89, 90, 100}

NewTopicCalls(n) ==
    { [op |-> "calculateNewTopicWeight",
       nodes |-> [i \in 1..n |-> laterTopic(i, m[i])]] :
      m \in [1..n -> NewTopicMasterySamples] }

InitFn ==
    /\ learning_nodes = <<>>
    /\ now = 0
    /\ steps = 0
    /\ before = <<>>
    /\ \/ \E n \in 0..MaxList : call \in CalculateWeightsCalls(n)
       \/ call \in PickCalls \cup RedistributeCalls
       \/ call \in MasteryCalls \cup InterestCalls
       \/ \E n \in 0..MaxList : call \in NewTopicCalls(n)
    /\ result = noResult
    /\ tasks = <<>>

CallCalculateWeights ==
    /\ call.op = "calculateWeights"
    /\ steps = 0
    /\ steps' = 1
    /\ result' = [threw |-> FALSE, success |-> TRUE,
                  value |-> calculateWeights(call.nodes, call.userPreferences,
                                             call.analysis, now)]
    /\ UNCHANGED <<learning_nodes, now, before, call, tasks>>

CallWeightedRandomPick ==
    /\ call.op = "weightedRandomPick"
    /\ steps = 0
    /\ steps' = 1
    /\ LET picked == weightedRandomPick(call.nodesWithWeights, call.num,
                                        randomDen(call.nodesWithWeights))
       IN  result' = [threw |-> picked = 0, success |-> picked # 0,
                      value |-> picked]
    /\ UNCHANGED <<learning_nodes, now, before, call, tasks>>

CallRedistributeWeight ==
    /\ call.op = "redistributeWeight"
    /\ steps = 0
    /\ steps' = 1
    /\ result' = [threw |-> FALSE, success |-> TRUE,
                  value |-> redistributeWeight(call.selectedNodeId, call.nodes,
                                               redistributionAmount)]
    /\ UNCHANGED <<learning_nodes, now, before, call, tasks>>

CallCalculateMasteryWeight ==
    /\ call.op = "calculateMasteryWeight"
    /\ steps = 0
    /\ steps' = 1
    /\ result' = [threw |-> FALSE, success |-> TRUE,
                  value |-> calculateMasteryWeight(call.masteryPercentage),
                  otherValue |-> calculateMasteryWeight(call.other)]
    /\ UNCHANGED <<learning_nodes, now, before, call, tasks>>

CallCalculateInterestMultiplier ==
    /\ call.op = "calculateInterestMultiplier"
    /\ steps = 0
    /\ steps' = 1
    /\ result' = [threw |-> FALSE, success |-> TRUE,
                  value |-> calculateInterestMultiplier(call.node,
                                                        call.userPreferences)]
    /\ UNCHANGED <<learning_nodes, now, before, call, tasks>>

CallCalculateNewTopicWeight ==
    /\ call.op = "calculateNewTopicWeight"
    /\ steps = 0
    /\ steps' = 1
    /\ result' = [threw |-> FALSE, success |-> TRUE,
                  value |-> calculateNewTopicWeight(call.nodes)]
    /\ UNCHANGED <<learning_nodes, now, before, call, tasks>>

NextFn ==
    \/ CallCalculateWeights
    \/ CallWeightedRandomPick
    \/ CallRedistributeWeight
    \/ CallCalculateMasteryWeight
    \/ CallCalculateInterestMultiplier
    \/ CallCalculateNewTopicWeight

SpecFn == InitFn /\ [][NextFn]_vars

\* ------------------------------------------------------------------------
\* Calls of handleLessonComplete in flight together
\* ------------------------------------------------------------------------

\* handleLessonComplete is an async function: between two awaits it runs
\* alone, and at every await another call may run.  A task is a call and the
\* await it stands at (pc), with the locals it holds across the awaits.
taskOf(nodeId, passed, score) ==
    [nodeId |-> nodeId, passed |-> passed, score |-> score,
     pc |-> "getNode", newMastery |-> NULL, pending |-> <<>>,
     threw |-> FALSE, weightUpdates |-> <<>>]

AsyncCompletionSamples == {<<TRUE, NULL>>, <<FALSE, NULL>>}

\* The table a call of handleLessonComplete that runs alone leaves behind
afterCompletion(table, nodeId, passed, score, today) ==
    IF getNode(table, nodeId) = 0 THEN table
    ELSE LET completedNode == table[getNode(table, nodeId)]
             newMastery ==
                 newMasteryOf(completedNode.mastery_percentage, passed, score)
             t1 == updateMastery(table, nodeId, newMastery, today)
             t2 == updateLastPracticed(t1, nodeId, today)
         IN  redistributeIfPassed(t2, nodeId, passed)

\* const completedNode = await this.manager.getNode(nodeId), and the
\* computation of newMastery that follows it without an await
AwaitGetNode(t) ==
    /\ tasks[t].pc = "getNode"
    /\ IF getNode(learning_nodes, tasks[t].nodeId) = 0
       THEN tasks' = [tasks EXCEPT ![t].pc = "done", ![t].threw = TRUE]
       ELSE LET completedNode ==
                    learning_nodes[getNode(learning_nodes, tasks[t].nodeId)]
            IN  tasks' = [tasks EXCEPT
                    ![t].pc = "updateMastery",
                    ![t].newMastery =
                        newMasteryOf(completedNode.mastery_percentage,
                                     tasks[t].passed, tasks[t].score)]
    /\ UNCHANGED <<learning_nodes, now, steps, before, call, result>>

\* await this.manager.updateMastery(nodeId, newMastery)
AwaitUpdateMastery(t) ==
    /\ tasks[t].pc = "updateMastery"
    /\ learning_nodes' = updateMastery(learning_nodes, tasks[t].nodeId,
                                       tasks[t].newMastery, now)
    /\ tasks' = [tasks EXCEPT ![t].pc = "updateLastPracticed"]
    /\ UNCHANGED <<now, steps, before, call, result>>

\* await this.updateLastPracticed(nodeId); a failed lesson returns after it
AwaitUpdateLastPracticed(t) ==
    /\ tasks[t].pc = "updateLastPracticed"
    /\ learning_nodes' = updateLastPracticed(learning_nodes, tasks[t].nodeId, now)
    /\ tasks' = [tasks EXCEPT
                    ![t].pc = IF tasks[t].passed THEN "getRootNodes" ELSE "done"]
    /\ UNCHANGED <<now, steps, before, call, result>>

\* const allNodes = await this.manager.getRootNodes(), and redistributeWeight
\* on what was read; updateNodeWeights then awaits one updateNode for every
\* node whose weight changed
AwaitGetRootNodes(t) ==
    /\ tasks[t].pc = "getRootNodes"
    /\ LET updatedNodes == redistributed(learning_nodes, tasks[t].nodeId)
           pending == SelectSeq(updatedNodes, weightChanged)
       IN  tasks' = [tasks EXCEPT
               ![t].pc = IF pending = <<>> THEN "done" ELSE "updateNodeWeights",
               ![t].pending = pending,
               ![t].weightUpdates = updateNodeWeights(updatedNodes)]
    /\ UNCHANGED <<learning_nodes, now, steps, before, call, result>>

\* await this.manager.updateNode(node.id, {selection_weight: ...}) in the loop
\* of updateNodeWeights
AwaitUpdateNode(t) ==
    /\ tasks[t].pc = "updateNodeWeights"
    /\ LET node == Head(tasks[t].pending)
       IN  learning_nodes' =
               updateNode(learning_nodes, node.id,
                          [selection_weight |-> node.selection_weight])
    /\ tasks' = [tasks EXCEPT
                    ![t].pending = Tail(tasks[t].pending),
                    ![t].pc = IF Tail(tasks[t].pending) = <<>>
                              THEN "done" ELSE "updateNodeWeights"]
    /\ UNCHANGED <<now, steps, before, call, result>>

\* Two calls on one stored population, started together
InitAsync ==
    /\ learning_nodes \in InitTables
    /\ now = 0
    /\ steps = 0
    /\ before = learning_nodes
    /\ call = [op |-> "concurrent"]
    /\ result = noResult
    /\ tasks \in
         { <<taskOf(id1, c1[1], c1[2]), taskOf(id2, c2[1], c2[2])>> :
             id1 \in {learning_nodes[i].id : i \in 1..Len(learning_nodes)},
             id2 \in {learning_nodes[i].id : i \in 1..Len(learning_nodes)},
             c1 \in AsyncCompletionSamples, c2 \in AsyncCompletionSamples }

NextAsync ==
    \/ \E t \in 1..Len(tasks) : AwaitGetNode(t)
    \/ \E t \in 1..Len(tasks) : AwaitUpdateMastery(t)
    \/ \E t \in 1..Len(tasks) : AwaitUpdateLastPracticed(t)
    \/ \E t \in 1..Len(tasks) : AwaitGetRootNodes(t)
    \/ \E t \in 1..Len(tasks) : AwaitUpdateNode(t)

SpecAsync == InitAsync /\ [][NextAsync]_vars

\* ------------------------------------------------------------------------
\* The API over the engine: POST /api/lessons/complete
\* ------------------------------------------------------------------------

\* What a call of handleLessonComplete that runs alone returns; threw is set
\* when it ends with an Error instead
completionResultOf(table, nodeId, passed, score) ==
    IF getNode(table, nodeId) = 0
    THEN [threw |-> TRUE, success |-> FALSE, newMastery |-> NULL,
          weightUpdates |-> <<>>]
    ELSE LET completedNode == table[getNode(table, nodeId)]
             newMastery ==
                 newMasteryOf(completedNode.mastery_percentage, passed, score)
             t1 == updateMastery(table, nodeId, newMastery, now)
             t2 == updateLastPracticed(t1, nodeId, now)
         IN  [threw |-> FALSE, success |-> TRUE, newMastery |-> newMastery,
              weightUpdates |-> weightUpdatesIfPassed(t2, nodeId, passed)]

\* LessonGenerator.completeLessonFeedback: what it returns for the outcome of
\* handleLessonComplete.  Its catch turns the Error into a result.
completeLessonFeedback(completionResult) ==
    IF completionResult.threw
    THEN [threw |-> FALSE, success |-> FALSE, code |-> 500,
          newMastery |-> NULL, weightUpdates |-> <<>>]
    ELSE IF ~completionResult.success
    THEN [completionResult EXCEPT !.threw = FALSE] @@ [code |-> 500]
    ELSE completionResult @@ [code |-> 200]

\* LearningNodeAPI.completeLesson(lessonId, nodeId, passed, score)
completeLesson(lessonId, nodeId, passed, score) ==
    LET completionResult ==
            completeLessonFeedback(
                completionResultOf(learning_nodes, nodeId, passed, score))
    IN  /\ steps < MaxSteps
        /\ steps' = steps + 1
        /\ before' = learning_nodes
        /\ call' = [op |-> "completeLesson", at |-> now, lessonId |-> lessonId,
                    nodeId |-> nodeId, passed |-> passed, score |-> score]
        /\ learning_nodes' =
               afterCompletion(learning_nodes, nodeId, passed, score, now)
        /\ result' = [threw |-> FALSE, success |-> TRUE,
                      data |-> completionResult]
        /\ UNCHANGED <<now, tasks>>

CompleteLesson ==
    \E nodeId \in {learning_nodes[i].id : i \in 1..Len(learning_nodes)}
                      \cup {create_new_topic} :
        \E c \in CompletionSamples :
            completeLesson(1, nodeId, c[1], c[2])

NextApi == CompleteLesson \/ Request \/ Tick \/ Reset

SpecApi == Init /\ [][NextApi]_vars

\* ------------------------------------------------------------------------
\* Completions over a storage whose writes can fail
\* ------------------------------------------------------------------------

\* handleLessonComplete(nodeId, passed, score) when one of its writes throws:
\* the first is the UPDATE of updateMastery, the second the UPDATE of
\* updateLastPracticed, whose Error updateLastPracticed catches and logs, the
\* others are the UPDATEs of updateNodeWeights in the order of the nodes.
\* failing is the number of the write that throws.
handleLessonCompleteFailing(nodeId, passed, score, failing) ==
    LET completedNode == learning_nodes[getNode(learning_nodes, nodeId)]
        newMastery == newMasteryOf(completedNode.mastery_percentage, passed, score)
        t1 == updateMastery(learning_nodes, nodeId, newMastery, now)
        t2 == updateLastPracticed(t1, nodeId, now)
        pending == IF passed
                   THEN SelectSeq(redistributed(t2, nodeId), weightChanged)
                   ELSE <<>>
    IN  /\ steps < MaxSteps
        /\ getNode(learning_nodes, nodeId) # 0
        /\ failing \in 1..(2 + Len(pending))
        /\ steps' = steps + 1
        /\ before' = learning_nodes
        /\ call' = [op |-> "handleLessonComplete", at |-> now, nodeId |-> nodeId,
                    passed |-> passed, score |-> score, failing |-> failing]
        /\ UNCHANGED <<now, tasks>>
        /\ IF failing = 2
           THEN /\ learning_nodes' = redistributeIfPassed(t1, nodeId, passed)
                /\ result' = [threw |-> FALSE, success |-> TRUE,
                              newMastery |-> newMastery,
                              weightUpdates |->
                                  weightUpdatesIfPassed(t1, nodeId, passed)]
           ELSE /\ learning_nodes' =
                       IF failing = 1 THEN learning_nodes
                       ELSE writeWeights(t2, SubSeq(pending, 1, failing - 3))
                /\ result' = [threw |-> TRUE, success |-> FALSE,
                              newMastery |-> NULL, weightUpdates |-> <<>>]

CompleteFailing ==
    \E nodeId \in {learning_nodes[i].id : i \in 1..Len(learning_nodes)} :
        \E c \in CompletionSamples :
            \E failing \in 1..(2 + NumTopics) :
                handleLessonCompleteFailing(nodeId, c[1], c[2], failing)

NextFaulty == CompleteFailing \/ Complete \/ Request \/ Tick \/ Reset

SpecFaulty == Init /\ [][NextFaulty]_vars

\* ------------------------------------------------------------------------
\* One topic passed over and over
\* ------------------------------------------------------------------------

\* The scores of a pass that raise the mastery: absent, the lowest that
\* rounds to a point, and the highest
PassingScoreSamples == {NULL, 5, 100}

\* Two calls in a row are two calls, also with the same arguments on the same
\* day: the record of a call carries a mark that the next call turns over.
turnOf(lastCall) == IF lastCall.op = "none" THEN 0 ELSE 1 - lastCall.turn

\* handleLessonComplete(nodeId, true, score), any number of times
passAgain(nodeId, score) ==
    /\ before' = learning_nodes
    /\ call' = [op |-> "handleLessonComplete", at |-> now, nodeId |-> nodeId,
                passed |-> TRUE, score |-> score, turn |-> turnOf(call)]
    /\ learning_nodes' = afterCompletion(learning_nodes, nodeId, TRUE, score, now)
    /\ result' = completionResultOf(learning_nodes, nodeId, TRUE, score)
    /\ UNCHANGED <<now, steps, tasks>>

\* The topic is the one the first call names; every later call names it too
PassAgain ==
    \E nodeId \in {learning_nodes[i].id : i \in 1..Len(learning_nodes)} :
        \E score \in PassingScoreSamples :
            /\ call.op = "handleLessonComplete" => nodeId = call.nodeId
            /\ passAgain(nodeId, score)

InitPassing ==
    /\ learning_nodes \in {t \in InitTables \cup InUseTables : Len(t) > 0}
    /\ now = 0
    /\ steps = 0
    /\ before = learning_nodes
    /\ call = noCall
    /\ result = noResult
    /\ tasks = <<>>

NextPassing == PassAgain \/ Tick

\* A step that records a pass of the topic in call; of the steps of
\* NextPassing only PassAgain is one
PassRecorded ==
    \E nodeId \in {learning_nodes[i].id : i \in 1..Len(learning_nodes)} :
        \E score \in PassingScoreSamples :
            /\ call.op = "handleLessonComplete" => nodeId = call.nodeId
            /\ call' = [op |-> "handleLessonComplete", at |-> now,
                        nodeId |-> nodeId, passed |-> TRUE, score |-> score,
                        turn |-> turnOf(call)]

\* The topic keeps being completed: a pass of it is always possible and is
\* not put off forever
SpecPassing == InitPassing /\ [][NextPassing]_vars /\ WF_call(PassRecorded)

\* ------------------------------------------------------------------------
\* Properties of the completion path (specification Spec)
\* ------------------------------------------------------------------------

completed == call.op = "handleLessonComplete" /\ result.success

\* The row of the completed node in a table
completedRow(table) == table[getNode(table, call.nodeId)]

rootIds(table) ==
    {table[i].id : i \in {j \in 1..Len(table) : table[j].parent_id = NULL}}

\* C1: after any sequence of completion calls, passed or failed, on any topic
\* of a population of any size, every stored selection weight is an integer
\* of 0..200 (a topic no weight was ever stored for has none).
C1_WeightRange ==
    \A i \in 1..Len(learning_nodes) :
        \/ learning_nodes[i].selection_weight = NULL
        \/ learning_nodes[i].selection_weight \in minWeight..maxWeight

\* C1 witness: a passed completion moved weight towards a topic that already
\* stood at 200, and that topic still stands at 200.
C1_CappedReceiver ==
    /\ completed /\ call.passed
    /\ Len(result.weightUpdates) >= 1
    /\ \E i \in 1..Len(learning_nodes) :
          /\ learning_nodes[i].id # call.nodeId
          /\ learning_nodes[i].parent_id = NULL
          /\ before[i].selection_weight = maxWeight
          /\ learning_nodes[i].selection_weight = maxWeight
          /\ call.nodeId \in rootIds(learning_nodes)

\* C2: after any sequence of completion calls with a score of 0..100 or no
\* score, every stored mastery_percentage is in 0..100, and so is the new
\* mastery each completion computes and stores.
C2_MasteryRange ==
    /\ \A i \in 1..Len(learning_nodes) :
          learning_nodes[i].mastery_percentage \in 0..100
    /\ completed =>
          /\ result.newMastery \in 0..100
          /\ completedRow(learning_nodes).mastery_percentage = result.newMastery

\* C2 witness: a failed completion of a topic at mastery 1 left it at 0, while
\* another topic stands at 100 after a passed completion from 95.
C2_BothEnds ==
    /\ completed /\ ~call.passed
    /\ completedRow(before).mastery_percentage = 1
    /\ completedRow(learning_nodes).mastery_percentage = 0
    /\ \E i \in 1..Len(learning_nodes) :
          /\ learning_nodes[i].mastery_percentage = 100
          /\ learning_nodes[i].id # call.nodeId

C5_MasteryUpdate ==
    completed =>
        LET m == completedRow(before).mastery_percentage
        IN  result.newMastery =
                IF call.passed
                THEN IF call.score # NULL
                     THEN Min(100, m + ((call.score + 5) \div 10))
                     ELSE Min(100, m + 10)
                ELSE Max(0, m - 2)

\* C4 (as claimed): calculateWeights gives a topic at mastery 100 the weight 0,
\* and the draw of a selection request never returns such a topic while
\* another candidate has a positive weight, wherever the topic stands in the
\* list and whatever the draw.
C4_MasteredNeverPicked ==
    (call.op = "generateLessonRequest" /\ result.success) =>
        LET cands == result.nodesWithWeights
        IN  \A i \in 1..Len(cands) :
                (cands[i].mastery_percentage = 100 /\ ~cands[i].isCreateNewTopic) =>
                    /\ cands[i].selection_weight = 0
                    /\ (\E j \in 1..Len(cands) : cands[j].selection_weight > 0) =>
                           result.selectedTopic # cands[i].id

\* C11: a passed completion of a topic that is stored but is not one of the
\* root nodes the weight is redistributed among succeeds; no stored weight
\* changes and no weight update is reported, while the topic's mastery and
\* last_practiced are updated.
C11_NonRootCompletion ==
    (/\ call.op = "handleLessonComplete" /\ call.passed
     /\ getNode(before, call.nodeId) # 0
     /\ call.nodeId \notin rootIds(before)) =>
        /\ result.success /\ ~result.threw
        /\ result.weightUpdates = <<>>
        /\ Len(learning_nodes) = Len(before)
        /\ \A i \in 1..Len(before) :
              learning_nodes[i].selection_weight = before[i].selection_weight
        /\ completedRow(learning_nodes).mastery_percentage = result.newMastery
        /\ \/ result.newMastery > completedRow(before).mastery_percentage
           \/ result.newMastery = 100
        /\ completedRow(learning_nodes).last_practiced = call.at

\* C11 witness: a passed completion of a child topic, below a root that has a
\* stored weight to give away, raised the child's mastery.
C11_ChildCompleted ==
    /\ completed /\ call.passed
    /\ completedRow(before).parent_id # NULL
    /\ \E i \in 1..Len(before) :
          before[i].parent_id = NULL /\ before[i].selection_weight = maxWeight
    /\ completedRow(learning_nodes).mastery_percentage >
           completedRow(before).mastery_percentage

\* The weight a topic stands at in storage: the stored one, 100 for a topic
\* nothing is stored for
standingWeight(row) ==
    IF row.selection_weight = NULL THEN 100 ELSE row.selection_weight

roundOver(table, userPreferences, day) ==
    LET topLayerAnalysis == analyzeTopLayerContent(table)
    IN  calculateWeights(topLayerAnalysis.content, userPreferences,
                         topLayerAnalysis.analysis, day)

entryOf(round, id) == round[CHOOSE i \in 1..Len(round) : round[i].id = id]

failedRoot == completed /\ ~call.passed /\ call.nodeId \in rootIds(before)

\* C13 (as claimed): after a failed completion of topic T, with the same
\* preferences and every other topic unchanged, the selection weight
\* calculateWeights computes for T in the next round equals the one it
\* computed in the round before the completion.
C13_SameComputedWeight ==
    failedRoot =>
        \A p \in PrefSamples :
            entryOf(roundOver(learning_nodes, p, now), call.nodeId).selection_weight =
                entryOf(roundOver(before, p, call.at), call.nodeId).selection_weight

\* C13 (amended): after a failed completion of topic T, with the same
\* preferences and every other topic unchanged, the stored selection weight
\* of T is what it was, and the base weight and the importance factor of T in
\* the next round of calculateWeights equal those of the round before the
\* completion.
C13_SameBaseWeight ==
    failedRoot =>
        \A p \in PrefSamples :
            LET next == entryOf(roundOver(learning_nodes, p, now), call.nodeId)
                last == entryOf(roundOver(before, p, call.at), call.nodeId)
            IN  /\ next.weight_breakdown.base = last.weight_breakdown.base
                /\ completedRow(learning_nodes).selection_weight =
                       completedRow(before).selection_weight
                /\ next.weight_breakdown.baseImportance =
                       last.weight_breakdown.baseImportance

\* C13 witness: a failed completion of a topic with a stored weight of 200
\* after which the next round computes another weight for it than the last
\* round did.
C13_OtherComputedWeight ==
    /\ failedRoot
    /\ completedRow(before).selection_weight = maxWeight
    /\ \E p \in PrefSamples :
          entryOf(roundOver(learning_nodes, p, now), call.nodeId).selection_weight #
              entryOf(roundOver(before, p, call.at), call.nodeId).selection_weight

requested == call.op = "generateLessonRequest"

\* C19: a selection request over an empty population answers with the
\* failure of its own, success = false and code 404 ('No content available
\* for lesson generation'), selects nothing, the synthetic candidate
\* included, and changes nothing in storage.
C19_EmptyPopulation ==
    (requested /\ getRootNodes(before) = <<>>) =>
        /\ ~result.success /\ ~result.threw
        /\ result.code = 404
        /\ result.error = "No content available for lesson generation"
        /\ result.selectedTopic = NULL
        /\ result.nodesWithWeights = <<>>
        /\ learning_nodes = before

\* C19 witness: a request over the empty table was answered with 404.
C19_EmptyTable ==
    /\ requested
    /\ before = <<>>
    /\ result.code = 404

\* C23 (as claimed): after resetWeights(0) returns success, the stored
\* selection weight of every root topic is 100, whatever it was before.
C23_ResetToDefault ==
    (call.op = "resetWeights" /\ result.success) =>
        \A i \in 1..Len(learning_nodes) :
            learning_nodes[i].parent_id = NULL =>
                learning_nodes[i].selection_weight = 100

\* C25: a selection request is read-only: whatever candidate it returns, the
\* stored selection weight, mastery and lastPracticed of every topic are what
\* they were before the call; of the calls of the engine only a completion
\* leaves storage other than it found it.
C25_RequestReadOnly ==
    /\ requested =>
           /\ Len(learning_nodes) = Len(before)
           /\ \A i \in 1..Len(before) :
                  /\ learning_nodes[i].id = before[i].id
                  /\ learning_nodes[i].selection_weight = before[i].selection_weight
                  /\ learning_nodes[i].mastery_percentage =
                         before[i].mastery_percentage
                  /\ learning_nodes[i].last_practiced = before[i].last_practiced
    /\ learning_nodes # before => call.op = "handleLessonComplete"

\* C25 witness: a request returned a stored topic for which it had computed
\* another weight than the stored one.
C25_PickedAtAnotherWeight ==
    /\ requested /\ result.success
    /\ result.selectedTopic # create_new_topic
    /\ entryOf(result.nodesWithWeights, result.selectedTopic).selection_weight #
           learning_nodes[getNode(learning_nodes, result.selectedTopic)].selection_weight

\* C26: in every round a selection request builds, the synthetic candidate
\* is the last one and weighs between 50 and 200, so the total weight of the
\* candidates handed to weightedRandomPick is above 0 and the branch for a
\* total of 0 is not taken, even when every topic has mastery 100.
C26_SyntheticWeight ==
    (requested /\ result.success) =>
        LET round == result.nodesWithWeights
            synthetic == round[Len(round)]
        IN  /\ synthetic.isCreateNewTopic
            /\ \A i \in 1..(Len(round) - 1) : ~round[i].isCreateNewTopic
            /\ synthetic.selection_weight >= 50
            /\ synthetic.selection_weight <= 200
            /\ SumSeq([i \in 1..Len(round) |-> round[i].selection_weight]) > 0

\* C26 witness: a request over topics that all have mastery 100 and all
\* weigh 0 in the round.
C26_AllMastered ==
    /\ requested /\ result.success
    /\ \A i \in 1..Len(before) : before[i].mastery_percentage = 100
    /\ \A i \in 1..(Len(result.nodesWithWeights) - 1) :
          result.nodesWithWeights[i].selection_weight = 0

\* ------------------------------------------------------------------------
\* Properties of the API (specification SpecApi)
\* ------------------------------------------------------------------------

\* C24 (as claimed): when handling a completion fails, as for a node id that
\* is not in storage, the result completeLesson returns has success = false;
\* it has success = true only when the mastery was updated.
C24_FailureReported ==
    call.op = "completeLesson" =>
        /\ getNode(before, call.nodeId) = 0 => ~result.success
        /\ result.success =>
               /\ getNode(before, call.nodeId) # 0
               /\ completedRow(learning_nodes).mastery_percentage =
                      result.data.newMastery

\* ------------------------------------------------------------------------
\* Properties of populations in long use (specification SpecInUse)
\* ------------------------------------------------------------------------

completedRoot == completed /\ call.nodeId \in rootIds(before)

\* The entry of the completed topic in the round a request with preferences p
\* makes now, and in the round it made when the completion was called
nextEntry(p) == entryOf(roundOver(learning_nodes, p, now), call.nodeId)
lastEntry(p) == entryOf(roundOver(before, p, call.at), call.nodeId)

onePassKeeps3 == \A w \in 3..maxWeight : afterPasses(w, 1) >= 3

\* C27: with the 15% redistribution of handleLessonComplete, from stored
\* weights of 3..200, after any sequence of passed and failed completions no
\* stored weight is below 3 or above 200; a passed topic of weight w is left
\* at w - round(0.15 w), which is 3 or more, so the lower clamp does not bind.
C27_NoWeightBelow3 ==
    /\ \A i \in 1..Len(learning_nodes) :
          /\ learning_nodes[i].selection_weight >= 3
          /\ learning_nodes[i].selection_weight <= maxWeight
    /\ onePassKeeps3
    /\ (completedRoot /\ call.passed) =>
           LET w == completedRow(before).selection_weight
           IN  /\ w - RoundDiv(w * 15, 100) >= 3
               /\ completedRow(learning_nodes).selection_weight =
                      w - RoundDiv(w * 15, 100)

\* C27 witness: a topic stored at weight 3 was completed on a pass and is
\* still stored at 3.
C27_StaysAt3 ==
    /\ completedRoot /\ call.passed
    /\ completedRow(before).selection_weight = 3
    /\ completedRow(learning_nodes).selection_weight = 3

passedRoot == completedRoot /\ call.passed

\* C30 (as claimed): after a passed completion of a topic, with the same
\* preferences, the selection weight computed for it in the next round of
\* calculateWeights is not higher than the one computed in the round before
\* the completion, the analysis being recomputed from the new masteries.
C30_NotHigher ==
    passedRoot =>
        \A p \in InterestPrefSamples :
            nextEntry(p).selection_weight <= lastEntry(p).selection_weight

\* C30 (amended): after a passed completion of a root topic, with the same
\* preferences, its base weight and its mastery factor in the next round are
\* not higher than in the round before the completion and its importance
\* factor is the same; its computed weight is not higher whenever its
\* recency, interest and frequency factors are not higher either.
C30_NotHigherByBaseAndMastery ==
    passedRoot =>
        \A p \in InterestPrefSamples :
            LET nextRound == nextEntry(p)
                lastRound == lastEntry(p)
                next == nextRound.weight_breakdown
                last == lastRound.weight_breakdown
            IN  /\ next.base <= last.base
                /\ next.mastery <= last.mastery
                /\ next.baseImportance = last.baseImportance
                /\ (/\ next.lastPracticed <= last.lastPracticed
                    /\ next.interest <= last.interest
                    /\ next.frequency <= last.frequency) =>
                       nextRound.selection_weight <= lastRound.selection_weight

\* C30 witness: a pass took a topic practiced the same day from below 40 to
\* 40 or more, where it is a learning opportunity, and the next round weighs
\* it higher than the last although its base weight went down.
C30_HigherAsOpportunity ==
    /\ passedRoot
    /\ completedRow(before).mastery_percentage < 40
    /\ completedRow(learning_nodes).mastery_percentage >= 40
    /\ \E p \in InterestPrefSamples :
          /\ nextEntry(p).weight_breakdown.base < lastEntry(p).weight_breakdown.base
          /\ nextEntry(p).weight_breakdown.frequency >
                 lastEntry(p).weight_breakdown.frequency
          /\ nextEntry(p).selection_weight > lastEntry(p).selection_weight

\* ------------------------------------------------------------------------
\* Properties of the WeightedSelector methods (specification SpecFn)
\* ------------------------------------------------------------------------

returned(op) == call.op = op /\ steps = 1

weightsOf(nodes) == [i \in 1..Len(nodes) |-> nodes[i].selection_weight]

\* The running sum of the first i weights
prefixSum(nodes, i) == SumSeq(SubSeq(weightsOf(nodes), 1, i))

\* C6 (as claimed): over a non-empty list of total weight > 0, with a draw r
\* of [0, total), weightedRandomPick returns the first candidate, in input
\* order, whose running sum of weights is strictly greater than r.
\* r = (num / den) * total, so  sum > r  is  sum * den > num * total.
C6_FirstExceeding ==
    (returned("weightedRandomPick") /\ SumSeq(weightsOf(call.nodesWithWeights)) > 0) =>
        LET nodes == call.nodesWithWeights
            den == randomDen(nodes)
            scaled == call.num * SumSeq(weightsOf(nodes))
        IN  /\ result.value \in 1..Len(nodes)
            /\ prefixSum(nodes, result.value) * den > scaled
            /\ \A j \in 1..(result.value - 1) : prefixSum(nodes, j) * den <= scaled

\* What a redistribution of 15% is to produce, given how the share of each
\* other topic is rounded
selectedIn(nodes, id) == \E i \in 1..Len(nodes) : nodes[i].id = id

weightOfId(nodes, id) == nodes[CHOOSE i \in 1..Len(nodes) : nodes[i].id = id].selection_weight

toMoveOf(w) == (w * 15 + 50) \div 100

expectedWeights(nodes, id, share) ==
    LET w == weightOfId(nodes, id)
    IN  [i \in 1..Len(nodes) |->
            IF nodes[i].id = id
            THEN IF w - toMoveOf(w) < 0 THEN 0 ELSE w - toMoveOf(w)
            ELSE IF nodes[i].selection_weight + share > 200 THEN 200
                 ELSE nodes[i].selection_weight + share]

redistributedAmong(n) ==
    /\ returned("redistributeWeight")
    /\ Len(call.nodes) >= n
    /\ selectedIn(call.nodes, call.selectedNodeId)

absDiff(a, b) == IF a >= b THEN a - b ELSE b - a

\* C8 (as claimed): for every redistribution pass over N topics with weights
\* in 0..200, the sum of the weights after the pass differs from the sum
\* before it by at most N.
C8_SumWithinN ==
    returned("redistributeWeight") =>
        absDiff(SumSeq(weightsOf(result.value)), SumSeq(weightsOf(call.nodes)))
            <= Len(call.nodes)

noReceiverCapped ==
    LET toMove == toMoveOf(weightOfId(call.nodes, call.selectedNodeId))
        others == Len(call.nodes) - 1
        share == (2 * toMove + others) \div (2 * others)
    IN  \A i \in 1..Len(call.nodes) :
            call.nodes[i].id # call.selectedNodeId =>
                call.nodes[i].selection_weight + share <= 200

\* C8 (amended): for every redistribution pass over N >= 2 topics with weights
\* in 0..200 that caps no receiving topic at 200, the sum of the weights after
\* the pass differs from the sum before it by at most N.
C8_SumWithinN_Uncapped ==
    (/\ returned("redistributeWeight")
     /\ Len(call.nodes) >= 2
     /\ selectedIn(call.nodes, call.selectedNodeId) => noReceiverCapped) =>
        absDiff(SumSeq(weightsOf(result.value)), SumSeq(weightsOf(call.nodes)))
            <= Len(call.nodes)

\* C8 witness: such a pass among three topics after which the sum is not
\* what it was.
C8_RoundingDrift ==
    /\ redistributedAmong(3) /\ noReceiverCapped
    /\ SumSeq(weightsOf(result.value)) # SumSeq(weightsOf(call.nodes))

\* C9: every topic calculateWeights returns, the synthetic one included, has
\* a selection_weight of 0..200, and its weight_breakdown.final is that weight.
C9_ComputedRange ==
    returned("calculateWeights") =>
        /\ Len(result.value) = Len(call.nodes) + 1
        /\ \A i \in 1..Len(result.value) :
              /\ result.value[i].selection_weight \in 0..200
              /\ result.value[i].weight_breakdown.final =
                     result.value[i].selection_weight

\* C9 witness: a topic whose product of factors is above 200 (stored weight
\* 200, mastery below 30, never practiced) comes back at 200.
C9_AboveMax ==
    /\ returned("calculateWeights")
    /\ \E i \in 1..Len(call.nodes) :
          /\ call.nodes[i].selection_weight = 200
          /\ call.nodes[i].mastery_percentage < 30
          /\ call.nodes[i].last_practiced = NULL
          /\ call.nodes[i].base_importance = NULL
          /\ result.value[i].selection_weight = 200

\* C10 (as claimed): the base weight of a topic in calculateWeights is its
\* stored selection weight whenever one is stored, for every stored value of
\* 0..200, and 100 only when none is stored; the final weight is
\* clamp(round(base x mastery x importance x recency x interest x frequency),
\* 0, 200).
C10_BaseIsStored ==
    returned("calculateWeights") =>
        \A i \in 1..Len(call.nodes) :
            LET stored == call.nodes[i].selection_weight
                base == IF stored # NULL THEN stored ELSE 100
                b == result.value[i].weight_breakdown
                product == finalWeightOf(base, b.mastery, b.baseImportance,
                                         b.lastPracticed, b.interest, b.frequency)
            IN  /\ b.base = base
                /\ result.value[i].selection_weight =
                       (IF product < 0 THEN 0 ELSE IF product > 200 THEN 200
                        ELSE product)

\* C14 (as claimed): calculateBaseImportance returns metadata.base_importance
\* as it is whenever the topic carries one, 0 included and whatever the
\* node_type; only without one does it take 1.3 for foundation and core, 1.1
\* for subject, 1.05 for skill and 1.0 for any other node_type.  (Hundredths.)
C14_ImportanceVerbatim ==
    returned("calculateWeights") =>
        \A i \in 1..Len(call.nodes) :
            result.value[i].weight_breakdown.baseImportance =
                IF call.nodes[i].base_importance # NULL
                THEN call.nodes[i].base_importance
                ELSE IF call.nodes[i].node_type \in {"foundation", "core"} THEN 130
                ELSE IF call.nodes[i].node_type = "subject" THEN 110
                ELSE IF call.nodes[i].node_type = "skill" THEN 105
                ELSE 100

noPreferences == call.userPreferences = [topic |-> <<>>, difficulty |-> ""]

C16_MasterySteps ==
    returned("calculateMasteryWeight") =>
        LET m == call.masteryPercentage
        IN  /\ m \in 0..29 => result.value = 20
            /\ m \in 30..49 => result.value = 15
            /\ m \in 50..69 => result.value = 10
            /\ m \in 70..89 => result.value = 6
            /\ m \in 90..98 => result.value = 3
            /\ m = 99 => result.value = 1
            /\ m >= 100 => result.value = 0
            /\ call.other >= m => result.otherValue <= result.value

\* C16 witness: the two calls stand on the two sides of a band edge, 29 and 30,
\* and the factor drops from 2.0 to 1.5.
C16_BandEdge ==
    /\ returned("calculateMasteryWeight")
    /\ call.masteryPercentage = 29 /\ call.other = 30
    /\ result.value = 20 /\ result.otherValue = 15

masteriesOf(nodes) == [i \in 1..Len(nodes) |-> nodes[i].mastery_percentage]

\* The factor of the synthetic candidate as stated for a population of n >= 1
\* topics, in tenths: the band of the average, plus 0.5 when at least half of
\* the topics are at 90 or more, at most 2.0
statedNewTopicFactor(nodes) ==
    LET n == Len(nodes)
        total == SumSeq(masteriesOf(nodes))
        high == Cardinality({i \in 1..n : nodes[i].mastery_percentage >= 90})
        band == IF total < 20 * n THEN 5
                ELSE IF total < 40 * n THEN 8
                ELSE IF total < 60 * n THEN 10
                ELSE IF total < 80 * n THEN 12
                ELSE 15
        sum == IF 2 * high >= n THEN band + 5 ELSE band
    IN  IF sum > 20 THEN 20 ELSE sum

\* C17: for a population that is not empty calculateNewTopicWeight returns
\* 0.5, 0.8, 1.0, 1.2 or 1.5 for an average mastery in [0,20), [20,40),
\* [40,60), [60,80), [80,100], plus 0.5 when at least half of the topics have a
\* mastery of 90 or more, and never more than 2.0; calculateWeights returns the
\* input topics in their order followed by exactly one synthetic candidate,
\* whose weight is that factor times 100, rounded.
C17_NewTopicFactor ==
    /\ (returned("calculateNewTopicWeight") /\ Len(call.nodes) >= 1) =>
          /\ result.value = statedNewTopicFactor(call.nodes)
          /\ result.value <= 20
    /\ returned("calculateWeights") =>
          LET out == result.value
              n == Len(call.nodes)
          IN  /\ Len(out) = n + 1
              /\ \A i \in 1..n :
                    out[i].id = call.nodes[i].id /\ ~out[i].isCreateNewTopic
              /\ out[n + 1].isCreateNewTopic
              /\ out[n + 1].id = create_new_topic
              /\ n >= 1 =>
                    out[n + 1].selection_weight =
                        (2 * (statedNewTopicFactor(call.nodes) * 100) + 10) \div 20

\* C17 witness: two topics at 90 and 0, an average of 45 with half of the
\* topics at 90 or more: the factor is 1.0 + 0.5.
C17_HalfMastered ==
    /\ returned("calculateNewTopicWeight")
    /\ masteriesOf(call.nodes) = <<90, 0>>
    /\ result.value = 15

\* C18: weightedRandomPick throws on an empty list of candidates and returns
\* no candidate; on every list that is not empty it returns one of the
\* candidates of the list.
C18_EmptyThrows ==
    returned("weightedRandomPick") =>
        IF Len(call.nodesWithWeights) = 0
        THEN result.threw /\ ~result.success /\ result.value = 0
        ELSE /\ ~result.threw /\ result.success
             /\ result.value \in 1..Len(call.nodesWithWeights)

\* C18 witness: the call on the empty list threw.
C18_EmptyList ==
    /\ returned("weightedRandomPick")
    /\ call.nodesWithWeights = <<>>
    /\ result.threw

C29_AllOrNothing ==
    (call.op = "handleLessonComplete" /\ result.threw) =>
        learning_nodes = before

\* ------------------------------------------------------------------------
\* Properties of a topic passed over and over (specification SpecPassing)
\* ------------------------------------------------------------------------

\* The topic has been completed and its stored mastery is 100
masteredNow ==
    /\ call.op = "handleLessonComplete"
    /\ completedRow(learning_nodes).mastery_percentage = 100

\* C28: if a topic keeps being completed as passed, each time with the score
\* absent or in 5..100, and is never completed as failed, its stored mastery
\* eventually reaches 100 and stays 100 from then on.
C28_MasteryReaches100 == <>[]masteredNow

\* C28 witness: a pass with score 5 took the topic from 99 to 100.
C28_LastPoint ==
    /\ masteredNow
    /\ call.score = 5
    /\ completedRow(before).mastery_percentage = 99

\* ------------------------------------------------------------------------
\* Properties of calls in flight together (specification SpecAsync)
\* ------------------------------------------------------------------------

allDone == Len(tasks) = 2 /\ \A t \in 1..2 : tasks[t].pc = "done"

\* The table the two calls leave behind when the first runs to its end before
\* the second starts
oneAfterTheOther(first, second) ==
    afterCompletion(
        afterCompletion(before, tasks[first].nodeId, tasks[first].passed,
                        tasks[first].score, now),
        tasks[second].nodeId, tasks[second].passed, tasks[second].score, now)

sameMasteryAndWeight(table, other) ==
    /\ Len(table) = Len(other)
    /\ \A i \in 1..Len(table) :
          /\ table[i].mastery_percentage = other[i].mastery_percentage
          /\ table[i].selection_weight = other[i].selection_weight

\* C20 (as claimed): when two calls of handleLessonComplete on one population
\* interleave at their awaits, the stored mastery and the stored weight of
\* every topic end as they do when the two calls run one after the other, in
\* one of the two orders.
C20_AsIfOneAfterTheOther ==
    allDone =>
        \/ sameMasteryAndWeight(learning_nodes, oneAfterTheOther(1, 2))
        \/ sameMasteryAndWeight(learning_nodes, oneAfterTheOther(2, 1))

====
